---- MODULE Spec2Model ----
(***************************************************************************)
(* catr: the line-reading and numbering loop of src/lib.rs (`run`), with   *)
(* the source opener (`open`) and the environment it reads from.           *)
(*                                                                         *)
(* Text is a sequence of one-character strings.  The environment (file     *)
(* system, standard input) is nondeterministic: it decides at each open    *)
(* whether the open succeeds, and at each read whether the stream yields   *)
(* a line, an error or the end of input.  What it decided is recorded in   *)
(* the history variable `input`.  Writes to standard output and to the     *)
(* error stream are taken to succeed.                                      *)
(***************************************************************************)
EXTENDS Integers, Sequences, FiniteSets

VARIABLES
    files,                      \* config.files
    number_lines,               \* config.number_lines
    number_nonblank_lines,      \* config.number_nonblank_lines
    pc,                         \* position in run: "loop", "lines", "returned", "panicked"
    idx,                        \* number of filenames the outer for loop has taken
    open_handles,               \* indices of the sources whose reader is alive
    line_index,                 \* count of the enumerate() of the current source (usize)
    current_nonblank_line_num,  \* the i32 counter of the current source
    stdout,                     \* characters written to standard output
    stderr,                     \* lines written to the error stream
    result,                     \* value run returned: "none" | "Ok" | "Err"
    input                       \* history: per attempted source, what the environment yielded

vars == <<files, number_lines, number_nonblank_lines, pc, idx, open_handles,
          line_index, current_nonblank_line_num, stdout, stderr, result, input>>

----------------------------------------------------------------------------
(* Bounds of the model *)

MaxFiles == 2           \* longest source list
MaxLines == 2           \* most lines the environment yields per source

Names == {"-", "f"}                         \* source identifiers; "-" is standard input
Texts == {<<>>, <<"a", "b">>}               \* line texts (terminator excluded)
OpenErrors == {"NotFound"}                  \* File::open error details

----------------------------------------------------------------------------
(* Integers of the program *)

I32Max == 2147483647
I32Min == -2147483647 - 1

DigitChars == <<"0", "1", "2", "3", "4", "5", "6", "7", "8", "9">>

\* A usize is 64 bits wide, wider than TLC's integers: it is held as its
\* decimal digits, most significant first.  2^64 is out of reach of any run here.
RECURSIVE USizeInc(_)
USizeInc(d) ==
    IF d = <<>> THEN <<1>>
    ELSE IF d[Len(d)] < 9 THEN [d EXCEPT ![Len(d)] = @ + 1]
    ELSE USizeInc(SubSeq(d, 1, Len(d) - 1)) \o <<0>>

\* Display of a usize
USizeToString(d) == [i \in 1..Len(d) |-> DigitChars[d[i] + 1]]

RECURSIVE NatToString(_)
NatToString(m) ==
    IF m < 10 THEN <<DigitChars[m + 1]>>
    ELSE NatToString(m \div 10) \o <<DigitChars[(m % 10) + 1]>>

\* Display of an i32 (the magnitude of I32Min does not fit an i32: it is
\* computed from -(n+1))
I32ToString(n) ==
    IF n >= 0 THEN NatToString(n)
    ELSE LET m == -(n + 1)
         IN  <<"-">> \o
             (IF m % 10 = 9 THEN NatToString(m \div 10 + 1) \o <<"0">>
              ELSE (IF m < 10 THEN <<>> ELSE NatToString(m \div 10))
                   \o <<DigitChars[(m % 10) + 2]>>)

\* `current_nonblank_line_num += 1` on an i32: a build with overflow checks
\* panics at I32Max, a build without them wraps to I32Min.
AddOne(n) ==
    IF n = I32Max
    THEN {[panic |-> TRUE, val |-> n], [panic |-> FALSE, val |-> I32Min]}
    ELSE {[panic |-> FALSE, val |-> n + 1]}

----------------------------------------------------------------------------
(* Formatting *)

FieldWidth == 6

Spaces(n) == [i \in 1..n |-> " "]

\* {:>6}: right-aligned in a field of minimum width FieldWidth
PadLeft_Narrow(s) == IF Len(s) >= FieldWidth - 1 THEN s ELSE Spaces(FieldWidth - 1 - Len(s)) \o s
PadLeft(s) == IF Len(s) >= FieldWidth THEN s ELSE Spaces(FieldWidth - Len(s)) \o s

\* format "{:>6}\t{}"
Numbered(num, line) == PadLeft(num) \o <<"\t">> \o line

\* println!: the text and a newline
Println(s) == s \o <<"\n">>

\* The ordinal printed in number_lines mode: line_index + 1
Ordinal_ZeroBased(li) == li
Ordinal(li) == USizeInc(li)

\* println!("{}", line)
PlainLine_SkipBlank(line) == IF line = <<>> THEN <<>> ELSE Println(line)
PlainLine(line) == Println(line)

\* The body of the inner loop for one successfully read line: the set of its
\* outcomes (what it writes, the counter it leaves, whether it panics).
LoopBody_NonblankFirst(nl, nbl, li, cnt, line) ==
    IF nbl THEN
        IF line # <<>>
        THEN {IF a.panic
              THEN [out |-> <<>>, cnt |-> cnt, panic |-> TRUE]
              ELSE [out |-> Println(Numbered(I32ToString(a.val), line)),
                    cnt |-> a.val, panic |-> FALSE] : a \in AddOne(cnt)}
        ELSE {[out |-> Println(<<>>), cnt |-> cnt, panic |-> FALSE]}
    ELSE IF nl THEN
        {[out |-> Println(Numbered(USizeToString(Ordinal(li)), line)),
          cnt |-> cnt, panic |-> FALSE]}
    ELSE
        {[out |-> PlainLine(line), cnt |-> cnt, panic |-> FALSE]}

LoopBody(nl, nbl, li, cnt, line) ==
    IF nl THEN
        {[out |-> Println(Numbered(USizeToString(Ordinal(li)), line)),
          cnt |-> cnt, panic |-> FALSE]}
    ELSE IF nbl THEN
        IF line # <<>>
        THEN {IF a.panic
              THEN [out |-> <<>>, cnt |-> cnt, panic |-> TRUE]
              ELSE [out |-> Println(Numbered(I32ToString(a.val), line)),
                    cnt |-> a.val, panic |-> FALSE] : a \in AddOne(cnt)}
        ELSE {[out |-> Println(<<>>), cnt |-> cnt, panic |-> FALSE]}
    ELSE
        {[out |-> PlainLine(line), cnt |-> cnt, panic |-> FALSE]}

\* eprintln!("Failed to open {}: {}", filename, err)
Diagnostic(filename, err) == <<"Failed to open ", filename, ": ", err>>

----------------------------------------------------------------------------
(* State *)

SeqsUpTo(S, n) == UNION {[1..k -> S] : k \in 0..n}

Last(s) == s[Len(s)]

\* One entry of the history: the source's position in the list, how its
\* processing stands ("failed", "open", "drained", "error"), the lines it has
\* yielded, and the number of non-empty lines it yielded before the history
\* begins (a decimal numeral; zero when the source is read from its start).
Entry(k, st, before) ==
    [src |-> k, status |-> st, lines |-> <<>>, nonblank_before |-> before]

Init ==
    /\ files \in SeqsUpTo(Names, MaxFiles)
    /\ number_lines \in BOOLEAN
    /\ number_nonblank_lines \in BOOLEAN
    /\ pc = "loop"
    /\ idx = 0
    /\ open_handles = {}
    /\ line_index = <<0>>
    /\ current_nonblank_line_num = 0
    /\ stdout = <<>>
    /\ stderr = <<>>
    /\ result = "none"
    /\ input = <<>>

Config == <<files, number_lines, number_nonblank_lines>>

----------------------------------------------------------------------------
(* run *)

\* The for loop takes the next filename and open fails: the diagnostic is
\* written and the loop goes on.  Standard input always opens.
OpenFail_Abort ==
    /\ pc = "loop"
    /\ idx < Len(files)
    /\ files[idx + 1] # "-"
    /\ \E err \in OpenErrors :
          stderr' = Append(stderr, Diagnostic(files[idx + 1], err))
    /\ idx' = idx + 1
    /\ input' = Append(input, Entry(idx + 1, "failed", <<0>>))
    /\ pc' = "returned"
    /\ result' = "Err"
    /\ UNCHANGED <<Config, open_handles, line_index, current_nonblank_line_num, stdout>>

OpenFail ==
    /\ pc = "loop"
    /\ idx < Len(files)
    /\ files[idx + 1] # "-"
    /\ \E err \in OpenErrors :
          stderr' = Append(stderr, Diagnostic(files[idx + 1], err))
    /\ idx' = idx + 1
    /\ input' = Append(input, Entry(idx + 1, "failed", <<0>>))
    /\ UNCHANGED <<Config, pc, open_handles, line_index, current_nonblank_line_num,
                   stdout, result>>

\* The for loop takes the next filename and open succeeds: a fresh counter and
\* a fresh enumerate() begin.
OpenOk_KeepCounter ==
    /\ pc = "loop"
    /\ idx < Len(files)
    /\ idx' = idx + 1
    /\ open_handles' = open_handles \cup {idx + 1}
    /\ line_index' = <<0>>
    /\ input' = Append(input, Entry(idx + 1, "open", <<0>>))
    /\ pc' = "lines"
    /\ UNCHANGED <<Config, current_nonblank_line_num, stdout, stderr, result>>

OpenOk ==
    /\ pc = "loop"
    /\ idx < Len(files)
    /\ idx' = idx + 1
    /\ open_handles' = open_handles \cup {idx + 1}
    /\ current_nonblank_line_num' = 0
    /\ line_index' = <<0>>
    /\ input' = Append(input, Entry(idx + 1, "open", <<0>>))
    /\ pc' = "lines"
    /\ UNCHANGED <<Config, stdout, stderr, result>>

\* The reader yields a line: the loop body runs on it.
ReadLine ==
    /\ pc = "lines"
    /\ Len(Last(input).lines) < MaxLines
    /\ \E line \in Texts :
        /\ input' = [input EXCEPT ![Len(input)].lines = Append(@, line)]
        /\ \E o \in LoopBody(number_lines, number_nonblank_lines, line_index,
                             current_nonblank_line_num, line) :
            IF o.panic
            THEN /\ pc' = "panicked"
                 /\ open_handles' = {}
                 /\ stderr' = Append(stderr, <<"panicked: attempt to add with overflow">>)
                 /\ UNCHANGED <<line_index, current_nonblank_line_num, stdout>>
            ELSE /\ stdout' = stdout \o o.out
                 /\ current_nonblank_line_num' = o.cnt
                 /\ line_index' = USizeInc(line_index)
                 /\ UNCHANGED <<pc, open_handles, stderr>>
    /\ UNCHANGED <<Config, idx, result>>

\* The reader yields an error: `line?` returns it from run; the reader is
\* dropped on the way out.
ReadErr_Skip ==
    /\ pc = "lines"
    /\ input' = [input EXCEPT ![Len(input)].status = "error"]
    /\ open_handles' = open_handles \ {idx}
    /\ pc' = "loop"
    /\ UNCHANGED <<Config, idx, line_index, current_nonblank_line_num, stdout, stderr,
                   result>>

ReadErr ==
    /\ pc = "lines"
    /\ input' = [input EXCEPT ![Len(input)].status = "error"]
    /\ open_handles' = open_handles \ {idx}
    /\ pc' = "returned"
    /\ result' = "Err"
    /\ UNCHANGED <<Config, idx, line_index, current_nonblank_line_num, stdout, stderr>>

\* The reader is exhausted: the match arm ends, the reader is dropped, and the
\* for loop goes on.
ReadEOF_Leak ==
    /\ pc = "lines"
    /\ input' = [input EXCEPT ![Len(input)].status = "drained"]
    /\ pc' = "loop"
    /\ UNCHANGED <<Config, idx, open_handles, line_index, current_nonblank_line_num,
                   stdout, stderr, result>>

ReadEOF ==
    /\ pc = "lines"
    /\ input' = [input EXCEPT ![Len(input)].status = "drained"]
    /\ open_handles' = open_handles \ {idx}
    /\ pc' = "loop"
    /\ UNCHANGED <<Config, idx, line_index, current_nonblank_line_num, stdout, stderr,
                   result>>

\* The source list is exhausted: run returns Ok(()).
LoopEnd_Early ==
    /\ pc = "loop"
    /\ idx >= 1 \/ idx = Len(files)
    /\ pc' = "returned"
    /\ result' = "Ok"
    /\ UNCHANGED <<Config, idx, open_handles, line_index, current_nonblank_line_num,
                   stdout, stderr, input>>

LoopEnd ==
    /\ pc = "loop"
    /\ idx = Len(files)
    /\ pc' = "returned"
    /\ result' = "Ok"
    /\ UNCHANGED <<Config, idx, open_handles, line_index, current_nonblank_line_num,
                   stdout, stderr, input>>

Next == OpenFail \/ OpenOk \/ ReadLine \/ ReadErr \/ ReadEOF \/ LoopEnd

Spec == Init /\ [][Next]_vars

\* run is sequential code: whenever it can take a step it takes one.
FairSpec == Spec /\ WF_vars(Next)

----------------------------------------------------------------------------
(* A long source.  The loop cannot be stepped through a million lines here, *)
(* so this specification begins inside the first source of the list: run   *)
(* has opened it and processed the lines that LongStarts counts, all of    *)
(* them non-empty.  stdout, stderr and input hold what is written and read *)
(* from that point on.  A start of zero is the state right after the open. *)

LongStarts ==
    { [lines |-> <<0>>, nonblank |-> 0],
      [lines |-> <<9, 9, 9, 9, 9, 8>>, nonblank |-> 999998],
      [lines |-> <<2, 1, 4, 7, 4, 8, 3, 6, 4, 6>>, nonblank |-> I32Max - 1] }

InitLong ==
    /\ files \in SeqsUpTo(Names, MaxFiles)
    /\ Len(files) >= 1
    /\ number_lines \in BOOLEAN
    /\ number_nonblank_lines \in BOOLEAN
    /\ pc = "lines"
    /\ idx = 1
    /\ open_handles = {1}
    /\ \E s \in LongStarts :
        /\ line_index = s.lines
        /\ current_nonblank_line_num =
              IF ~number_lines /\ number_nonblank_lines THEN s.nonblank ELSE 0
        /\ input = <<Entry(1, "open", s.lines)>>
    /\ stdout = <<>>
    /\ stderr = <<>>
    /\ result = "none"

SpecLong == InitLong /\ [][Next]_vars

----------------------------------------------------------------------------
(* Vocabulary of the properties.  Nothing below is used by the model.      *)

\* The lines written to standard output, terminators removed
RECURSIVE SplitLines(_)
SplitLines(s) ==
    IF \A i \in 1..Len(s) : s[i] # "\n" THEN <<>>
    ELSE LET n == CHOOSE i \in 1..Len(s) :
                     s[i] = "\n" /\ \A j \in 1..(i - 1) : s[j] # "\n"
         IN  <<SubSeq(s, 1, n - 1)>> \o SplitLines(SubSeq(s, n + 1, Len(s)))

OutLines == SplitLines(stdout)

\* The lines read so far, in the order read: source, position in it, text
RECURSIVE Flatten(_)
Flatten(log) ==
    IF log = <<>> THEN <<>>
    ELSE LET e == log[Len(log)]
         IN  Flatten(SubSeq(log, 1, Len(log) - 1)) \o
             [i \in 1..Len(e.lines) |-> [k |-> Len(log), i |-> i, text |-> e.lines[i]]]

InLines == Flatten(input)

\* Number of lines the history holds
RECURSIVE LinesRead(_)
LinesRead(log) ==
    IF log = <<>> THEN 0
    ELSE LinesRead(SubSeq(log, 1, Len(log) - 1)) + Len(log[Len(log)].lines)

\* Number of lines read from the sources before source k
RECURSIVE Offset(_)
Offset(k) == IF k <= 1 THEN 0 ELSE Offset(k - 1) + Len(input[k - 1].lines)

\* Decimal numerals by counting: the successor of a numeral, and the numeral
\* n places after s
SuccChar(c) ==
    CASE c = "0" -> "1" [] c = "1" -> "2" [] c = "2" -> "3" [] c = "3" -> "4"
      [] c = "4" -> "5" [] c = "5" -> "6" [] c = "6" -> "7" [] c = "7" -> "8"
      [] c = "8" -> "9"

RECURSIVE NumSucc(_)
NumSucc(s) ==
    IF s = <<>> THEN <<"1">>
    ELSE IF s[Len(s)] = "9" THEN NumSucc(SubSeq(s, 1, Len(s) - 1)) \o <<"0">>
    ELSE SubSeq(s, 1, Len(s) - 1) \o <<SuccChar(s[Len(s)])>>

RECURSIVE NumAdd(_, _)
NumAdd(s, n) == IF n = 0 THEN s ELSE NumSucc(NumAdd(s, n - 1))

Numeral(n) == NumAdd(<<"0">>, n)

NumeralOf(d) == [i \in 1..Len(d) |-> DigitChars[d[i] + 1]]

\* Number of non-empty lines among the first i of L
NonEmptyUpTo(L, i) == Cardinality({j \in 1..i : L[j] # <<>>})

RECURSIVE StripSpaces(_)
StripSpaces(s) ==
    IF s # <<>> /\ s[1] = " " THEN StripSpaces(SubSeq(s, 2, Len(s))) ELSE s

\* A number right-aligned in six columns (numbers of at most six characters)
RightAligned(num) == [i \in 1..(6 - Len(num)) |-> " "] \o num

ModePlain == ~number_lines /\ ~number_nonblank_lines
ModeNonblank == ~number_lines /\ number_nonblank_lines

\* The input line e is printed with a number
IsNumbered(e) == number_lines \/ (number_nonblank_lines /\ e.text # <<>>)

\* The ordinal of input line e among the non-empty lines of its source
NonblankOrdinal(e) ==
    NumAdd(NumeralOf(input[e.k].nonblank_before),
           NonEmptyUpTo(input[e.k].lines, e.i))

\* What the specification asks run to print for input line e (numbers below
\* one million)
RefLine(e) ==
    IF number_lines THEN RightAligned(Numeral(e.i)) \o <<"\t">> \o e.text
    ELSE IF number_nonblank_lines THEN
        IF e.text = <<>> THEN <<>>
        ELSE RightAligned(NonblankOrdinal(e)) \o <<"\t">> \o e.text
    ELSE e.text

RECURSIVE Concat(_)
Concat(ls) ==
    IF ls = <<>> THEN <<>>
    ELSE Concat(SubSeq(ls, 1, Len(ls) - 1)) \o ls[Len(ls)] \o <<"\n">>

RefOutput ==
    LET in == InLines
    IN  Concat([r \in 1..Len(in) |-> RefLine(in[r])])

Failed == {k \in 1..Len(input) : input[k].status = "failed"}
Errored == {k \in 1..Len(input) : input[k].status = "error"}

\* The k-th smallest element of a finite set of numbers
RECURSIVE Nth(_, _)
Nth(S, n) ==
    LET m == CHOOSE x \in S : \A y \in S : x <= y
    IN  IF n = 1 THEN m ELSE Nth(S \ {m}, n - 1)

----------------------------------------------------------------------------
(* Properties *)

\* C1: a source whose open fails contributes exactly one diagnostic, naming
\* it, to the error stream and no line to standard output; the sources are
\* attempted in list order and the next one is attempted after a failure; and
\* with no read error run returns Ok once every source has been attempted,
\* even if opens failed.
C1_OpenFailureSkipped ==
    /\ Len(stderr) = Cardinality(Failed)
    /\ \A n \in 1..Len(stderr) :
          /\ stderr[n][1] = "Failed to open "
          /\ stderr[n][2] = files[Nth(Failed, n)]
          /\ stderr[n][3] = ": "
          /\ stderr[n][4] \in OpenErrors
    /\ \A k \in Failed : input[k].lines = <<>>
    /\ Len(OutLines) = LinesRead(input)
    /\ \A k \in 1..Len(input) : input[k].src = k
    /\ (pc = "loop" /\ idx < Len(files)) => ENABLED (OpenOk \/ OpenFail)
    /\ (pc = "returned" /\ Errored = {}) =>
          result = "Ok" /\ Len(input) = Len(files)

C1_Witness ==
    /\ pc = "returned"
    /\ result = "Ok"
    /\ Len(input) = 2
    /\ input[1].status = "failed"
    /\ input[2].status = "drained"
    /\ Len(input[2].lines) = 2

\* C2: when reading line j of source k fails, run is over and has returned
\* the error; nothing was opened or reported after source k; and standard
\* output holds exactly the lines of sources 1..k-1 and lines 1..j-1 of
\* source k.
C2_ReadErrorFatal ==
    /\ \A k \in Errored :
          /\ pc = "returned"
          /\ result = "Err"
          /\ ~ ENABLED Next
          /\ k = Len(input)
          /\ idx = k
          /\ stdout = RefOutput
          /\ Len(stderr) = Cardinality(Failed)
    /\ result = "Err" => Errored # {}

C2_Witness ==
    /\ Len(files) = 2
    /\ Len(input) = 1
    /\ input[1].status = "error"
    /\ Len(input[1].lines) = 1
    /\ pc = "returned"

\* C3: in every opened source the first numbered line carries the number 1:
\* the first line when number_lines is set, the first non-empty line when
\* only number_nonblank_lines is set, whatever came before it in the run.
C3_NumberingRestarts ==
    LET out == OutLines
    IN  \A k \in 1..Len(input) :
            LET L == input[k].lines
                One(t) == <<" ", " ", " ", " ", " ", "1", "\t">> \o t
            IN  /\ (number_lines /\ Len(L) >= 1) =>
                      /\ Len(out) >= Offset(k) + 1
                      /\ out[Offset(k) + 1] = One(L[1])
                /\ (ModeNonblank /\ \E i \in 1..Len(L) : L[i] # <<>>) =>
                      LET i == CHOOSE i \in 1..Len(L) :
                                  L[i] # <<>> /\ \A j \in 1..(i - 1) : L[j] = <<>>
                      IN  /\ Len(out) >= Offset(k) + i
                          /\ out[Offset(k) + i] = One(L[i])

C3_Witness ==
    /\ ModeNonblank
    /\ Len(input) = 2
    /\ input[1].status = "drained"
    /\ input[1].lines = <<<<"a", "b">>, <<"a", "b">>>>
    /\ input[2].lines = <<<<>>, <<"a", "b">>>>
    /\ pc = "returned"
    /\ result = "Ok"

\* C4: with only number_nonblank_lines set, every line read is printed: the
\* k-th non-empty line of a source as the number k, a tab and the text, an
\* empty line as a bare newline.
C4_NonblankNumbering ==
    ModeNonblank =>
        LET out == OutLines
            in == InLines
        IN  /\ Len(out) = Len(in)
            /\ \A r \in 1..Len(in) :
                  IF in[r].text = <<>> THEN out[r] = <<>>
                  ELSE StripSpaces(out[r])
                          = NonblankOrdinal(in[r]) \o <<"\t">> \o in[r].text

\* C5: with number_lines set, the i-th line of a source is printed as the
\* ordinal i, a tab and the text of the line, empty lines included.
C5_AllLinesNumbered ==
    number_lines =>
        LET out == OutLines
            in == InLines
        IN  /\ Len(out) = Len(in)
            /\ \A r \in 1..Len(in) :
                  StripSpaces(out[r]) = Numeral(in[r].i) \o <<"\t">> \o in[r].text

C5_Witness ==
    /\ number_lines
    /\ ~number_nonblank_lines
    /\ Len(input) = 1
    /\ input[1].lines = <<<<>>, <<"a", "b">>>>
    /\ Len(OutLines) = 2

\* C6: with neither flag set, standard output is the lines read, in source
\* order and stream order, each followed by one newline.
C6_PlainPassthrough ==
    ModePlain =>
        LET in == InLines
        IN  /\ stdout = Concat([r \in 1..Len(in) |-> in[r].text])
            /\ Len(OutLines) = Len(in)

C6_Witness ==
    /\ ModePlain
    /\ pc = "returned"
    /\ Len(input) = 2
    /\ input[1].lines = <<<<"a", "b">>, <<>>>>
    /\ input[2].lines = <<<<"a", "b">>>>

\* C7 as stated: every numbered line is a prefix of exactly six characters,
\* one tab, and the text.
C7_PrefixExactlySix ==
    LET out == OutLines
        in == InLines
    IN  \A r \in 1..Len(in) :
            (IsNumbered(in[r]) /\ r <= Len(out)) =>
                LET o == out[r]
                IN  /\ Len(o) >= 7
                    /\ \A j \in 1..6 : o[j] # "\t"
                    /\ o[7] = "\t"
                    /\ SubSeq(o, 8, Len(o)) = in[r].text

\* C7 as amended: every numbered line is a prefix, one tab, and the text; the
\* prefix is the number right-aligned and space padded to six characters when
\* the number has at most six, and the bare number when it has more.
C7_PrefixAtLeastSix ==
    LET out == OutLines
        in == InLines
    IN  \A r \in 1..Len(in) :
            (IsNumbered(in[r]) /\ r <= Len(out)) =>
                LET o == out[r]
                    num == StripSpaces(o)
                    t == CHOOSE j \in 1..Len(num) :
                            num[j] = "\t" /\ \A i \in 1..(j - 1) : num[i] # "\t"
                    pad == Len(o) - Len(num)
                IN  /\ \E j \in 1..Len(num) : num[j] = "\t"
                    /\ t >= 2
                    /\ \A i \in 1..(t - 1) :
                          num[i] \in {"0", "1", "2", "3", "4", "5", "6", "7", "8", "9", "-"}
                    /\ SubSeq(num, t + 1, Len(num)) = in[r].text
                    /\ pad + (t - 1) = (IF t - 1 <= 6 THEN 6 ELSE t - 1)

C7_Witness ==
    /\ number_lines
    /\ Len(OutLines) = 2
    /\ Len(OutLines[1]) >= 7 /\ OutLines[1][7] = "\t"
    /\ Len(OutLines[2]) >= 8 /\ OutLines[2][8] = "\t"

\* C8: at most one reader is alive at any time; the readers alive are those of
\* the sources still being read; every source before the current one was
\* drained or failed to open; and no reader is alive once run has returned.
C8_OneHandleAtATime ==
    /\ Cardinality(open_handles) <= 1
    /\ open_handles = {k \in 1..Len(input) : input[k].status = "open"}
    /\ \A k \in 1..(Len(input) - 1) : input[k].status \in {"failed", "drained"}
    /\ pc = "returned" => open_handles = {}
    /\ pc = "lines" => open_handles = {idx}

C8_Witness ==
    /\ Len(input) = 2
    /\ input[1].status = "drained"
    /\ Len(input[1].lines) = 2
    /\ open_handles = {2}

C10_NumberLinesWins ==
    (number_lines /\ number_nonblank_lines) =>
        /\ LET in == InLines
           IN  stdout = Concat([r \in 1..Len(in) |->
                    RightAligned(Numeral(in[r].i)) \o <<"\t">> \o in[r].text])
        /\ current_nonblank_line_num = 0
        /\ \A line \in Texts :
              LoopBody(TRUE, TRUE, line_index, current_nonblank_line_num, line)
                = LoopBody(TRUE, FALSE, line_index, current_nonblank_line_num, line)

C10_Witness ==
    /\ number_lines
    /\ number_nonblank_lines
    /\ Len(input) = 1
    /\ input[1].lines = <<<<>>, <<"a", "b">>>>
    /\ Len(OutLines) = 2

====
